---- MODULE Spec2Model ----
(***************************************************************************)
(* A model of draft.py: the interactive release-draft helper.              *)
(*                                                                         *)
(* Python strings are modelled as sequences of one-character strings, so   *)
(* that strip(), lower(), split(), endswith(), int() and str() are         *)
(* computed character by character as the interpreter computes them.       *)
(* Python's None is modelled by the empty tuple of an option: <<>> is      *)
(* None and <<x>> is the value x.                                          *)
(***************************************************************************)
EXTENDS Integers, Sequences, FiniteSets, TLC

(* The largest number of releases on the first page of the listing. *)
MaxPage == 2

(***************************************************************************)
(* Python string methods                                                   *)
(***************************************************************************)

Whitespace == {" ", "\n", "\t"}

UpperCase == <<"A", "B", "C", "D", "E", "F", "G", "H", "I", "J", "K", "L", "M",
               "N", "O", "P", "Q", "R", "S", "T", "U", "V", "W", "X", "Y", "Z">>

LowerCase == <<"a", "b", "c", "d", "e", "f", "g", "h", "i", "j", "k", "l", "m",
               "n", "o", "p", "q", "r", "s", "t", "u", "v", "w", "x", "y", "z">>

Digits == <<"0", "1", "2", "3", "4", "5", "6", "7", "8", "9">>

RECURSIVE LStrip(_)
LStrip(s) ==
    IF s /= <<>> /\ Head(s) \in Whitespace THEN LStrip(Tail(s)) ELSE s

RECURSIVE RStrip(_)
RStrip(s) ==
    IF s /= <<>> /\ s[Len(s)] \in Whitespace
    THEN RStrip(SubSeq(s, 1, Len(s) - 1))
    ELSE s

(* str.strip() *)
Strip(s) == RStrip(LStrip(s))

LowerChar(c) ==
    IF \E i \in 1..Len(UpperCase) : UpperCase[i] = c
    THEN LowerCase[CHOOSE i \in 1..Len(UpperCase) : UpperCase[i] = c]
    ELSE c

(* str.lower() *)
RECURSIVE Lower(_)
Lower(s) ==
    IF s = <<>> THEN <<>> ELSE <<LowerChar(Head(s))>> \o Lower(Tail(s))

(* str.startswith(prefix) and str.endswith(suffix) *)
StartsWith(s, prefix) ==
    Len(s) >= Len(prefix) /\ SubSeq(s, 1, Len(prefix)) = prefix

EndsWith(s, suffix) ==
    Len(s) >= Len(suffix) /\ SubSeq(s, Len(s) - Len(suffix) + 1, Len(s)) = suffix

(* str.split(sep) and str.rsplit(sep) without maxsplit: the same list. *)
RECURSIVE SplitFrom(_, _, _, _)
SplitFrom(s, sep, cur, acc) ==
    IF s = <<>> THEN Append(acc, cur)
    ELSE IF Head(s) = sep THEN SplitFrom(Tail(s), sep, <<>>, Append(acc, cur))
    ELSE SplitFrom(Tail(s), sep, Append(cur, Head(s)), acc)

Split(s, sep) == SplitFrom(s, sep, <<>>, <<>>)

(* str.splitlines(): a trailing line break opens no empty last line. *)
RECURSIVE SplitLinesFrom(_, _, _)
SplitLinesFrom(s, cur, acc) ==
    IF s = <<>> THEN (IF cur = <<>> THEN acc ELSE Append(acc, cur))
    ELSE IF Head(s) = "\n" THEN SplitLinesFrom(Tail(s), <<>>, Append(acc, cur))
    ELSE SplitLinesFrom(Tail(s), Append(cur, Head(s)), acc)

SplitLines(s) == SplitLinesFrom(s, <<>>, <<>>)

IsDigit(c) == \E i \in 1..Len(Digits) : Digits[i] = c

DigitVal(c) == (CHOOSE i \in 1..Len(Digits) : Digits[i] = c) - 1

(* The digits of int(s): surrounding whitespace and one sign are allowed. *)
IntBody(s) ==
    LET t == Strip(s)
    IN  IF t /= <<>> /\ t[1] \in {"+", "-"} THEN Tail(t) ELSE t

(* int(s) raises ValueError exactly when IntOk(s) is false. *)
IntOk(s) ==
    /\ IntBody(s) /= <<>>
    /\ \A i \in 1..Len(IntBody(s)) : IsDigit(IntBody(s)[i])

RECURSIVE DigitsVal(_, _)
DigitsVal(ds, acc) ==
    IF ds = <<>> THEN acc ELSE DigitsVal(Tail(ds), 10 * acc + DigitVal(Head(ds)))

IntVal(s) ==
    LET t == Strip(s)
        v == DigitsVal(IntBody(s), 0)
    IN  IF t /= <<>> /\ t[1] = "-" THEN 0 - v ELSE v

RECURSIVE NatStr(_)
NatStr(n) ==
    IF n < 10 THEN <<Digits[n + 1]>>
    ELSE NatStr(n \div 10) \o <<Digits[(n % 10) + 1]>>

(* str(n), as the f-string formats an int. *)
IntStr(n) == IF n < 0 THEN <<"-">> \o NatStr(0 - n) ELSE NatStr(n)

(***************************************************************************)
(* difflib.unified_diff, as main calls it (n = 3, lineterm = "\n")          *)
(***************************************************************************)

(* The context lines kept around a change. *)
DiffContext == 3

Max(x, y) == IF x >= y THEN x ELSE y

Min(x, y) == IF x <= y THEN x ELSE y

(* Indices are 0-based as in difflib: a[i] of the code is a[i + 1] here. *)
RECURSIVE MatchLen(_, _, _, _, _, _)
MatchLen(a, b, i, j, ahi, bhi) ==
    IF i < ahi /\ j < bhi /\ a[i + 1] = b[j + 1]
    THEN 1 + MatchLen(a, b, i + 1, j + 1, ahi, bhi)
    ELSE 0

(* SequenceMatcher.find_longest_match: the longest block, the earliest in a,
   and of those the earliest in b. *)
find_longest_match(a, b, alo, ahi, blo, bhi) ==
    LET cands == {<<i, j, MatchLen(a, b, i, j, ahi, bhi)>> :
                      <<i, j>> \in (alo..(ahi - 1)) \X (blo..(bhi - 1))}
        good  == {c \in cands : c[3] > 0}
    IN  IF good = {} THEN <<alo, blo, 0>>
        ELSE CHOOSE c \in good :
                \A d \in good :
                    \/ c[3] > d[3]
                    \/ c[3] = d[3] /\ c[1] < d[1]
                    \/ c[3] = d[3] /\ c[1] = d[1] /\ c[2] <= d[2]

RECURSIVE MatchBlocks(_, _, _, _, _, _)
MatchBlocks(a, b, alo, ahi, blo, bhi) ==
    LET m == find_longest_match(a, b, alo, ahi, blo, bhi)
        i == m[1]
        j == m[2]
        k == m[3]
    IN  IF k = 0 THEN <<>>
        ELSE (IF alo < i /\ blo < j
              THEN MatchBlocks(a, b, alo, i, blo, j) ELSE <<>>)
             \o <<m>>
             \o (IF i + k < ahi /\ j + k < bhi
                 THEN MatchBlocks(a, b, i + k, ahi, j + k, bhi) ELSE <<>>)

(* The collapse of adjacent blocks at the end of get_matching_blocks. *)
RECURSIVE Collapse(_, _, _)
Collapse(blocks, cur, acc) ==
    IF blocks = <<>> THEN (IF cur[3] > 0 THEN Append(acc, cur) ELSE acc)
    ELSE LET nb == Head(blocks)
         IN  IF cur[1] + cur[3] = nb[1] /\ cur[2] + cur[3] = nb[2]
             THEN Collapse(Tail(blocks), <<cur[1], cur[2], cur[3] + nb[3]>>, acc)
             ELSE Collapse(Tail(blocks), nb,
                           IF cur[3] > 0 THEN Append(acc, cur) ELSE acc)

get_matching_blocks(a, b) ==
    Append(Collapse(MatchBlocks(a, b, 0, Len(a), 0, Len(b)), <<0, 0, 0>>, <<>>),
           <<Len(a), Len(b), 0>>)

RECURSIVE OpcodesFrom(_, _, _, _)
OpcodesFrom(blocks, i, j, acc) ==
    IF blocks = <<>> THEN acc
    ELSE LET ai   == Head(blocks)[1]
             bj   == Head(blocks)[2]
             size == Head(blocks)[3]
             tag  == IF i < ai /\ j < bj THEN "replace"
                     ELSE IF i < ai THEN "delete"
                     ELSE IF j < bj THEN "insert"
                     ELSE ""
             acc1 == IF tag /= "" THEN Append(acc, <<tag, i, ai, j, bj>>) ELSE acc
             acc2 == IF size > 0
                     THEN Append(acc1, <<"equal", ai, ai + size, bj, bj + size>>)
                     ELSE acc1
         IN  OpcodesFrom(Tail(blocks), ai + size, bj + size, acc2)

get_opcodes(a, b) == OpcodesFrom(get_matching_blocks(a, b), 0, 0, <<>>)

(* The trimming of the first and the last opcode in get_grouped_opcodes. *)
TrimEnds(codes, n) ==
    LET c0 == IF codes = <<>> THEN <<<<"equal", 0, 1, 0, 1>>>> ELSE codes
        f  == c0[1]
        c1 == IF f[1] = "equal"
              THEN [c0 EXCEPT ![1] = <<f[1], Max(f[2], f[3] - n), f[3],
                                       Max(f[4], f[5] - n), f[5]>>]
              ELSE c0
        l  == c1[Len(c1)]
    IN  IF l[1] = "equal"
        THEN [c1 EXCEPT ![Len(c1)] = <<l[1], l[2], Min(l[3], l[2] + n),
                                       l[4], Min(l[5], l[4] + n)>>]
        ELSE c1

RECURSIVE GroupFrom(_, _, _, _)
GroupFrom(codes, n, group, acc) ==
    IF codes = <<>>
    THEN IF group /= <<>> /\ ~(Len(group) = 1 /\ group[1][1] = "equal")
         THEN Append(acc, group) ELSE acc
    ELSE LET c == Head(codes)
         IN  IF c[1] = "equal" /\ c[3] - c[2] > 2 * n
             THEN GroupFrom(Tail(codes), n,
                      << <<c[1], Max(c[2], c[3] - n), c[3],
                           Max(c[4], c[5] - n), c[5]>> >>,
                      Append(acc, Append(group,
                          <<c[1], c[2], Min(c[3], c[2] + n),
                            c[4], Min(c[5], c[4] + n)>>)))
             ELSE GroupFrom(Tail(codes), n, Append(group, c), acc)

get_grouped_opcodes(a, b, n) == GroupFrom(TrimEnds(get_opcodes(a, b), n), n, <<>>, <<>>)

(* difflib._format_range_unified *)
format_range_unified(start, stop) ==
    LET beginning == start + 1
        length    == stop - start
    IN  IF length = 1 THEN IntStr(beginning)
        ELSE IntStr(IF length = 0 THEN beginning - 1 ELSE beginning)
             \o <<",">> \o IntStr(length)

(* "--- Current draft\n" and "+++ New draft\n" *)
FromFileLine ==
    <<"-", "-", "-", " ", "C", "u", "r", "r", "e", "n", "t", " ",
      "d", "r", "a", "f", "t", "\n">>

ToFileLine ==
    <<"+", "+", "+", " ", "N", "e", "w", " ", "d", "r", "a", "f", "t", "\n">>

HunkLine(group) ==
    LET first == group[1]
        last  == group[Len(group)]
    IN  <<"@", "@", " ", "-">> \o format_range_unified(first[2], last[3])
        \o <<" ", "+">> \o format_range_unified(first[4], last[5])
        \o <<" ", "@", "@", "\n">>

Prefixed(tag, lines, lo, hi) ==
    [k \in 1..(hi - lo) |-> <<tag>> \o lines[lo + k]]

OpcodeLines(a, b, c) ==
    IF c[1] = "equal" THEN Prefixed(" ", a, c[2], c[3])
    ELSE (IF c[1] \in {"replace", "delete"}
          THEN Prefixed("-", a, c[2], c[3]) ELSE <<>>)
         \o (IF c[1] \in {"replace", "insert"}
             THEN Prefixed("+", b, c[4], c[5]) ELSE <<>>)

RECURSIVE GroupLines(_, _, _)
GroupLines(a, b, group) ==
    IF group = <<>> THEN <<>>
    ELSE OpcodeLines(a, b, Head(group)) \o GroupLines(a, b, Tail(group))

RECURSIVE HunksFrom(_, _, _)
HunksFrom(a, b, groups) ==
    IF groups = <<>> THEN <<>>
    ELSE <<HunkLine(Head(groups))>> \o GroupLines(a, b, Head(groups))
         \o HunksFrom(a, b, Tail(groups))

(* A variant that yields the two file lines even when a = b. *)
unified_diff_headers(a, b) ==
    <<FromFileLine, ToFileLine>>
    \o HunksFrom(a, b, get_grouped_opcodes(a, b, DiffContext))

(* The lines the generator yields: nothing at all when a = b. *)
unified_diff(a, b) ==
    LET groups == get_grouped_opcodes(a, b, DiffContext)
    IN  IF groups = <<>> THEN <<>>
        ELSE <<FromFileLine, ToFileLine>> \o HunksFrom(a, b, groups)

(***************************************************************************)
(* The inputs of a run: the environment, the credential helper, the        *)
(* hosting service and the user at the terminal                            *)
(***************************************************************************)

(* os.getenv("GH_TOKEN", "") *)
EnvTokens == {<<>>, <<"e">>}

(* `gh auth token`: a failure (any exception), or the standard output. *)
HelperResults ==
    {[ok |-> FALSE, stdout |-> <<>>],
     [ok |-> TRUE, stdout |-> <<"\n">>],
     [ok |-> TRUE, stdout |-> <<"h", "\n">>]}

(* getpass("Enter GitHub token: ") *)
PromptTokens == {<<>>, <<"p">>}

(* Tag names of the service: never empty.  v1.9.0 derives a next version;
   v2.0, 1.2.3.0 and v1.x.0 end in ".0" and do not; v1.4.1 is no minor. *)
Tags ==
    {<<"v", "1", ".", "9", ".", "0">>,
     <<"v", "2", ".", "0">>,
     <<"1", ".", "2", ".", "3", ".", "0">>,
     <<"v", "1", ".", "x", ".", "0">>,
     <<"v", "1", ".", "4", ".", "1">>}

Releases == [tag_name : Tags, draft : BOOLEAN]

(* get_releases().get_page(0): up to MaxPage releases, in any order. *)
Pages == UNION {[1..k -> Releases] : k \in 0..MaxPage}

(* draft_release.body: None, or the text of the draft. *)
DraftBodies ==
    {<<>>,
     <<<<>>>>,
     <<<<"A", "\n", "B">>>>,
     <<<<"A", " ", "\n", "C", "\n">>>>}

(* What requestJsonAndCheck gives for generate-notes: an HTTP error, a
   payload that is no dict, a dict without "body", a dict with a body. *)
NoteResponses ==
    {[kind |-> "error", body |-> <<>>],
     [kind |-> "list", body |-> <<>>],
     [kind |-> "dict", body |-> <<>>],
     [kind |-> "dict", body |-> <<<<>>>>],
     [kind |-> "dict", body |-> <<<<" ", "\n">>>>],
     [kind |-> "dict", body |-> <<<<"A", "\n", "B">>>>],
     [kind |-> "dict", body |-> <<<<" ", "A", "\n", "C">>>>],
     [kind |-> "dict", body |-> <<<<"B">>>>]}

(* The lines typed at the [y/N] prompts. *)
Answers == {<<" ", "Y">>, <<"Y", "e", "s", " ">>, <<"n", "o">>, <<>>}

(* The lines typed at the next-release-version prompt. *)
TypedVersions == {<<>>, <<" ", "V", "3", ".", "0">>, <<"v", "2", ".", "1", ".", "0">>}

(***************************************************************************)
(* The pure steps of main and _generate_release_note                       *)
(***************************************************************************)

(* A variant that consults the next source whatever token is held. *)
NoTokenAlways(tok) == TRUE

(* `if not gh_token` *)
NoToken(tok) == tok = <<>>

(* A variant that takes any non-blank answer for a yes. *)
ConfirmedAnyText(line) == Strip(line) /= <<>>

(* input(...).strip().lower() in ("y", "yes") *)
Confirmed(line) == Lower(Strip(line)) \in {<<"y">>, <<"y", "e", "s">>}

(* The loop over the page, with its break once both tags are set. *)
RECURSIVE ScanFrom(_, _, _, _)
ScanFrom(rs, i, rd, dr) ==
    IF i > Len(rs) THEN [release_data |-> rd, draft_release |-> dr]
    ELSE LET r    == rs[i]
             isd  == rd.draft = <<>> /\ r.draft
             rd1  == IF isd THEN [rd EXCEPT !.draft = r.tag_name] ELSE rd
             dr1  == IF isd THEN <<r>> ELSE dr
             ism  == rd1.minor = <<>> /\ ~r.draft /\ EndsWith(r.tag_name, <<".", "0">>)
             rd2  == IF ism THEN [rd1 EXCEPT !.minor = r.tag_name] ELSE rd1
         IN  IF rd2.draft /= <<>> /\ rd2.minor /= <<>>
             THEN [release_data |-> rd2, draft_release |-> dr1]
             ELSE ScanFrom(rs, i + 1, rd2, dr1)

RECURSIVE Reverse(_)
Reverse(rs) == IF rs = <<>> THEN <<>> ELSE Append(Reverse(Tail(rs)), Head(rs))

(* A variant that scans the page from its last release to its first. *)
ScanReversed(rs) ==
    ScanFrom(Reverse(rs), 1, [draft |-> <<>>, minor |-> <<>>], <<>>)

Scan(rs) == ScanFrom(rs, 1, [draft |-> <<>>, minor |-> <<>>], <<>>)

(* `if release_data["draft"]` and `elif release_data["minor"]` *)
UpdateBranch(rd) == rd.draft /= <<>>

(* A variant with `if` in place of `elif`. *)
CreateBranchIf(rd) == rd.minor /= <<>>

CreateBranch(rd) == rd.draft = <<>> /\ rd.minor /= <<>>

(* A variant that increments the last part of the tag, not the middle one. *)
NextReleasePatch(minor) ==
    LET parts == Split(minor, ".")
    IN  IF Len(parts) /= 3 \/ ~IntOk(parts[3])
        THEN [ok |-> FALSE, value |-> <<>>, error |-> "minor release not in semver"]
        ELSE [ok |-> TRUE,
              value |-> parts[1] \o <<".">> \o parts[2] \o <<".">>
                        \o IntStr(IntVal(parts[3]) + 1),
              error |-> ""]

(* The try block that derives the next release from the minor tag. *)
NextRelease(minor) ==
    LET parts == Split(minor, ".")
    IN  IF Len(parts) /= 3
        THEN [ok |-> FALSE, value |-> <<>>, error |-> "minor release not in semver"]
        ELSE IF ~IntOk(parts[2])
        THEN [ok |-> FALSE, value |-> <<>>,
              error |-> "unable to parse release as semver"]
        ELSE [ok |-> TRUE,
              value |-> parts[1] \o <<".">> \o IntStr(IntVal(parts[2]) + 1)
                        \o <<".", "0">>,
              error |-> ""]

(* A variant that reads the body with a default and checks nothing. *)
generate_release_note_unchecked(d) ==
    IF d.kind = "error"
    THEN [ok |-> FALSE, value |-> <<>>, error |-> "GithubException"]
    ELSE IF d.kind /= "dict"
    THEN [ok |-> FALSE, value |-> <<>>, error |-> "unable to generate release notes"]
    ELSE [ok |-> TRUE,
          value |-> IF d.body = <<>> THEN <<>> ELSE Strip(d.body[1]),
          error |-> ""]

(* _generate_release_note, from the response of the request on. *)
generate_release_note(d) ==
    IF d.kind = "error"
    THEN [ok |-> FALSE, value |-> <<>>, error |-> "GithubException"]
    ELSE IF d.kind /= "dict"
    THEN [ok |-> FALSE, value |-> <<>>, error |-> "unable to generate release notes"]
    ELSE IF d.body = <<>>
    THEN [ok |-> FALSE, value |-> <<>>, error |-> "unable to get release notes text"]
    ELSE IF d.body[1] = <<>>
    THEN [ok |-> FALSE, value |-> <<>>, error |-> "unable to generate release notes"]
    ELSE [ok |-> TRUE, value |-> Strip(d.body[1]), error |-> ""]

(* RED, GREEN and RESET, as NO_COLOR decides them. *)
Red(uc) == IF uc THEN "ESC[31m" ELSE ""

Green(uc) == IF uc THEN "ESC[32m" ELSE ""

Reset(uc) == IF uc THEN "ESC[0m" ELSE ""

(* A variant that prints the two file lines of the diff without colour. *)
PrintedLinePlainHeaders(line, uc) ==
    IF StartsWith(line, <<"-", "-", "-">>) \/ StartsWith(line, <<"+", "+", "+">>)
    THEN [pre |-> "", text |-> RStrip(line), post |-> ""]
    ELSE IF StartsWith(line, <<"-">>)
    THEN [pre |-> Red(uc), text |-> RStrip(line), post |-> Reset(uc)]
    ELSE IF StartsWith(line, <<"+">>)
    THEN [pre |-> Green(uc), text |-> RStrip(line), post |-> Reset(uc)]
    ELSE [pre |-> "", text |-> RStrip(line), post |-> ""]

(* One pass of the loop that prints the diff: what is printed for a line. *)
PrintedLine(line, uc) ==
    IF StartsWith(line, <<"-">>)
    THEN [pre |-> Red(uc), text |-> RStrip(line), post |-> Reset(uc)]
    ELSE IF StartsWith(line, <<"+">>)
    THEN [pre |-> Green(uc), text |-> RStrip(line), post |-> Reset(uc)]
    ELSE [pre |-> "", text |-> RStrip(line), post |-> ""]

PrintedDiff(diff, uc) == [i \in 1..Len(diff) |-> PrintedLine(diff[i], uc)]

(***************************************************************************)
(* The state of a run of main                                              *)
(***************************************************************************)

VARIABLES
    pc,                \* the position in main
    gh_token,          \* the token held
    use_color,         \* os.getenv("NO_COLOR") is None
    sources,           \* the credential sources consulted, with their yield
    releases,          \* the page fetched
    release_data,      \* the "draft" and "minor" tags found
    draft_release,     \* None, or the first draft release of the page
    prev_release_note, \* None until read, then the draft's stripped body
    next_release_note, \* None until generated (update path)
    next_release,      \* the next version (create path)
    release_note,      \* None until generated (create path)
    data,              \* None, or the last generate-notes response
    inputs,            \* the prompts shown and the lines typed at them
    calls,             \* the calls made to the hosting service
    out,               \* the diff lines printed
    printed,           \* the status lines printed
    error              \* the message of the exception that ended the run

vars == <<pc, gh_token, use_color, sources, releases, release_data,
          draft_release, prev_release_note, next_release_note, next_release,
          release_note, data, inputs, calls, out, printed, error>>

Init ==
    /\ pc = "start"
    /\ gh_token = <<>>
    /\ use_color = TRUE
    /\ sources = <<>>
    /\ releases = <<>>
    /\ release_data = [draft |-> <<>>, minor |-> <<>>]
    /\ draft_release = <<>>
    /\ prev_release_note = <<>>
    /\ next_release_note = <<>>
    /\ next_release = <<>>
    /\ release_note = <<>>
    /\ data = <<>>
    /\ inputs = <<>>
    /\ calls = <<>>
    /\ out = <<>>
    /\ printed = <<>>
    /\ error = ""

Call(op, args) == [op |-> op, args |-> args]

Input(prompt, line) == [prompt |-> prompt, line |-> line]

(* An uncaught exception ends the run. *)
Raise(msg) == pc' = "fatal" /\ error' = msg

(* lines 24-32: the token of the environment and the colour switch *)
GetEnv ==
    /\ pc = "start"
    /\ \E tok \in EnvTokens, uc \in BOOLEAN :
          /\ gh_token' = tok
          /\ use_color' = uc
          /\ sources' = Append(sources, [source |-> "env", token |-> tok])
    /\ pc' = "helper"
    /\ UNCHANGED <<releases, release_data, draft_release, prev_release_note,
                   next_release_note, next_release, release_note, data, inputs,
                   calls, out, printed, error>>

(* lines 34-41: the credential helper, its failure swallowed *)
AuthHelper ==
    /\ pc = "helper"
    /\ IF NoToken(gh_token)
       THEN \E h \in HelperResults :
               LET tok == IF h.ok THEN Strip(h.stdout) ELSE gh_token
               IN  /\ gh_token' = tok
                   /\ sources' = Append(sources, [source |-> "helper", token |-> tok])
       ELSE UNCHANGED <<gh_token, sources>>
    /\ pc' = "getpass"
    /\ UNCHANGED <<use_color, releases, release_data, draft_release,
                   prev_release_note, next_release_note, next_release,
                   release_note, data, inputs, calls, out, printed, error>>

(* lines 43-50: the hidden prompt, and the failure when no token was got *)
AskToken ==
    /\ pc = "getpass"
    /\ \E typed \in PromptTokens :
          LET tok == IF NoToken(gh_token) THEN typed ELSE gh_token
          IN  /\ gh_token' = tok
              /\ sources' = IF NoToken(gh_token)
                            THEN Append(sources, [source |-> "getpass", token |-> tok])
                            ELSE sources
              /\ IF NoToken(tok)
                 THEN Raise("Unable to get GitHub token")
                 ELSE pc' = "scan" /\ error' = error
    /\ UNCHANGED <<use_color, releases, release_data, draft_release,
                   prev_release_note, next_release_note, next_release,
                   release_note, data, inputs, calls, out, printed>>

(* lines 52-76: the first page of releases and the scan of it *)
ScanReleases ==
    /\ pc = "scan"
    /\ \/ /\ calls' = Append(calls, Call("get_repo", <<>>))
          /\ Raise("GithubException")
          /\ UNCHANGED <<releases, release_data, draft_release>>
       \/ /\ calls' = calls \o <<Call("get_repo", <<>>), Call("get_releases", <<>>)>>
          /\ Raise("GithubException")
          /\ UNCHANGED <<releases, release_data, draft_release>>
       \/ \E page \in Pages :
             /\ calls' = calls \o <<Call("get_repo", <<>>), Call("get_releases", <<>>)>>
             /\ releases' = page
             /\ release_data' = Scan(page).release_data
             /\ draft_release' = Scan(page).draft_release
             /\ pc' = "branch"
             /\ error' = error
    /\ UNCHANGED <<gh_token, use_color, sources, prev_release_note,
                   next_release_note, next_release, release_note, data, inputs,
                   out, printed>>

(* lines 78-88: the first prompt of the update path, then the draft's body *)
ConfirmUpdate ==
    /\ pc = "branch"
    /\ UpdateBranch(release_data)
    /\ \E line \in Answers :
          /\ inputs' = Append(inputs, Input("Update old draft release?", line))
          /\ IF ~Confirmed(line)
             THEN /\ printed' = Append(printed, "Exiting")
                  /\ pc' = "done"
                  /\ UNCHANGED <<prev_release_note, error>>
             ELSE IF draft_release = <<>>
             THEN /\ Raise("unable to retrieve draft release info")
                  /\ UNCHANGED <<prev_release_note, printed>>
             ELSE \E body \in DraftBodies :
                     IF body = <<>>
                     THEN /\ Raise("AttributeError")
                          /\ UNCHANGED <<prev_release_note, printed>>
                     ELSE /\ prev_release_note' = <<Strip(body[1])>>
                          /\ pc' = "generate_update"
                          /\ UNCHANGED <<printed, error>>
    /\ UNCHANGED <<gh_token, use_color, sources, releases, release_data,
                   draft_release, next_release_note, next_release, release_note,
                   data, calls, out>>

(* lines 90-118: the generated note, the diff and its display *)
GenerateUpdate ==
    /\ pc = "generate_update"
    /\ \E d \in NoteResponses :
          LET res  == generate_release_note(d)
              diff == unified_diff(SplitLines(prev_release_note[1]),
                                   SplitLines(res.value))
          IN  /\ data' = <<d>>
              /\ calls' = Append(calls, Call("generate_notes",
                              [previous_tag_name |-> release_data.minor,
                               tag_name |-> release_data.draft]))
              /\ IF ~res.ok
                 THEN /\ Raise(res.error)
                      /\ UNCHANGED <<next_release_note, out, printed>>
                 ELSE /\ next_release_note' = <<res.value>>
                      /\ error' = error
                      /\ IF diff = <<>>
                         THEN /\ printed' = printed \o
                                    <<"No updates to the release note", "Exiting">>
                              /\ pc' = "done"
                              /\ out' = out
                         ELSE /\ out' = PrintedDiff(diff, use_color)
                              /\ pc' = "confirm_update_draft"
                              /\ printed' = printed
    /\ UNCHANGED <<gh_token, use_color, sources, releases, release_data,
                   draft_release, prev_release_note, next_release, release_note,
                   inputs>>

(* lines 120-133: the second prompt of the update path, then the update *)
ConfirmUpdateDraft ==
    /\ pc = "confirm_update_draft"
    /\ \E line \in Answers :
          /\ inputs' = Append(inputs, Input("Update draft release with note?", line))
          /\ IF ~Confirmed(line)
             THEN /\ printed' = Append(printed, "Exiting")
                  /\ pc' = "done"
                  /\ UNCHANGED <<calls, error>>
             ELSE /\ calls' = Append(calls, Call("update_release",
                                  [name |-> release_data.draft,
                                   message |-> next_release_note[1]]))
                  /\ \/ /\ printed' = printed \o <<"Updated draft release", "Exiting">>
                        /\ pc' = "done"
                        /\ error' = error
                     \/ /\ Raise("GithubException")
                        /\ printed' = printed
    /\ UNCHANGED <<gh_token, use_color, sources, releases, release_data,
                   draft_release, prev_release_note, next_release_note,
                   next_release, release_note, data, out>>

(* lines 135-155: the first prompt of the create path, then the derivation *)
ConfirmCreate ==
    /\ pc = "branch"
    /\ CreateBranch(release_data)
    /\ \E line \in Answers :
          /\ inputs' = Append(inputs, Input("Create new draft release?", line))
          /\ IF ~Confirmed(line)
             THEN /\ printed' = Append(printed, "Exiting")
                  /\ pc' = "done"
                  /\ next_release' = next_release
             ELSE LET nr == NextRelease(release_data.minor)
                  IN  IF nr.ok
                      THEN /\ next_release' = nr.value
                           /\ pc' = "generate_create"
                           /\ printed' = printed
                      ELSE /\ next_release' = <<>>
                           /\ pc' = "type_version"
                           /\ printed' = Append(printed,
                                  "(!) unable to determine next release version")
    /\ UNCHANGED <<gh_token, use_color, sources, releases, release_data,
                   draft_release, prev_release_note, next_release_note,
                   release_note, data, calls, out, error>>

(* lines 156-158: the next version typed by the user *)
TypeVersion ==
    /\ pc = "type_version"
    /\ \E line \in TypedVersions :
          /\ inputs' = Append(inputs,
                 Input("Type in your desired next release version", line))
          /\ next_release' = Lower(Strip(line))
    /\ pc' = "generate_create"
    /\ UNCHANGED <<gh_token, use_color, sources, releases, release_data,
                   draft_release, prev_release_note, next_release_note,
                   release_note, data, calls, out, printed, error>>

(* lines 160-166: the generated note of the create path *)
GenerateCreate ==
    /\ pc = "generate_create"
    /\ \E d \in NoteResponses :
          LET res == generate_release_note(d)
          IN  /\ data' = <<d>>
              /\ calls' = Append(calls, Call("generate_notes",
                              [previous_tag_name |-> release_data.minor,
                               tag_name |-> next_release]))
              /\ IF ~res.ok
                 THEN /\ Raise(res.error)
                      /\ release_note' = release_note
                 ELSE /\ release_note' = <<res.value>>
                      /\ pc' = "confirm_create_save"
                      /\ error' = error
    /\ UNCHANGED <<gh_token, use_color, sources, releases, release_data,
                   draft_release, prev_release_note, next_release_note,
                   next_release, inputs, out, printed>>

(* lines 168-180: the second prompt of the create path, then the creation *)
ConfirmCreateSave ==
    /\ pc = "confirm_create_save"
    /\ \E line \in Answers :
          /\ inputs' = Append(inputs, Input("Save new draft release with note?", line))
          /\ IF ~Confirmed(line)
             THEN /\ printed' = Append(printed, "Exiting")
                  /\ pc' = "done"
                  /\ UNCHANGED <<calls, error>>
             ELSE /\ calls' = Append(calls, Call("create_git_release",
                                  [tag |-> next_release, name |-> next_release]))
                  /\ \/ /\ printed' = printed \o <<"Created draft release", "Exiting">>
                        /\ pc' = "done"
                        /\ error' = error
                     \/ /\ Raise("GithubException")
                        /\ printed' = printed
    /\ UNCHANGED <<gh_token, use_color, sources, releases, release_data,
                   draft_release, prev_release_note, next_release_note,
                   next_release, release_note, data, out>>

(* lines 78 and 135 both false: main falls off its end *)
NoCandidate ==
    /\ pc = "branch"
    /\ ~UpdateBranch(release_data)
    /\ ~CreateBranch(release_data)
    /\ pc' = "done"
    /\ UNCHANGED <<gh_token, use_color, sources, releases, release_data,
                   draft_release, prev_release_note, next_release_note,
                   next_release, release_note, data, inputs, calls, out,
                   printed, error>>

Next ==
    \/ GetEnv
    \/ AuthHelper
    \/ AskToken
    \/ ScanReleases
    \/ ConfirmUpdate
    \/ GenerateUpdate
    \/ ConfirmUpdateDraft
    \/ ConfirmCreate
    \/ TypeVersion
    \/ GenerateCreate
    \/ ConfirmCreateSave
    \/ NoCandidate

Spec == Init /\ [][Next]_vars

(***************************************************************************)
(* The properties of a run                                                 *)
(***************************************************************************)

VersionPrompt == "Type in your desired next release version"

Yes(line) == Lower(Strip(line)) \in {<<"y">>, <<"y", "e", "s">>}

(* The positions in calls of the calls that change the repository. *)
Mutations ==
    {i \in 1..Len(calls) : calls[i].op \in {"update_release", "create_git_release"}}

NoteRequests == {i \in 1..Len(calls) : calls[i].op = "generate_notes"}

Called(op) == \E i \in 1..Len(calls) : calls[i].op = op

(* The positions in inputs of the confirmation prompts answered with a no. *)
Declines ==
    {i \in 1..Len(inputs) : inputs[i].prompt /= VersionPrompt /\ ~Yes(inputs[i].line)}

BeforeScan == pc \in {"start", "helper", "getpass", "scan"}

UpdatePath == release_data.draft /= <<>>

(* C1: once a confirmation prompt is answered with anything but y or yes
   (trimmed, lower-cased), the run has made and makes no update_release or
   create_git_release call, and it has ended by a normal return: that prompt
   is the last one shown and no exception was raised. *)
C1_DeclineEndsRun ==
    \A i \in Declines :
        /\ pc = "done"
        /\ error = ""
        /\ Mutations = {}
        /\ i = Len(inputs)
        /\ printed[Len(printed)] = "Exiting"

(* A run that said yes at the first prompt and no at the second. *)
C1_Witness ==
    /\ Len(inputs) = 2
    /\ Yes(inputs[1].line)
    /\ ~Yes(inputs[2].line)
    /\ Called("generate_notes")

(* C2: a run makes at most one mutation call; update_release only with a
   draft candidate, create_git_release only with no draft candidate and a
   minor candidate; with neither candidate the run shows no prompt, makes no
   mutation call and ends. *)
C2_OneMutationByScan ==
    /\ Cardinality(Mutations) <= 1
    /\ Called("update_release") => release_data.draft /= <<>>
    /\ Called("create_git_release") =>
          release_data.draft = <<>> /\ release_data.minor /= <<>>
    /\ (~BeforeScan /\ Called("get_releases")
        /\ release_data.draft = <<>> /\ release_data.minor = <<>>
        /\ error = "")
          => /\ pc \in {"branch", "done"}
             /\ inputs = <<>>
             /\ Mutations = {}
             /\ ~Called("generate_notes")

(* A run that updated the draft although the page also holds a minor. *)
C2_Witness ==
    /\ Called("update_release")
    /\ release_data.minor /= <<>>
    /\ pc = "done"

DraftAt == {i \in 1..Len(releases) : releases[i].draft}

MinorAt ==
    {i \in 1..Len(releases) :
        ~releases[i].draft /\ EndsWith(releases[i].tag_name, <<".", "0">>)}

Lowest(S) == CHOOSE i \in S : \A j \in S : i <= j

(* C3: the draft candidate is the first release of the page with draft set,
   the minor candidate the first with draft unset and a tag ending in ".0";
   a candidate is absent exactly when the page holds no such release. *)
C3_FirstOfEachKind ==
    /\ release_data.draft =
          IF DraftAt = {} THEN <<>> ELSE releases[Lowest(DraftAt)].tag_name
    /\ draft_release =
          IF DraftAt = {} THEN <<>> ELSE <<releases[Lowest(DraftAt)]>>
    /\ release_data.minor =
          IF MinorAt = {} THEN <<>> ELSE releases[Lowest(MinorAt)].tag_name
    /\ (release_data.draft = <<>>) = (DraftAt = {})
    /\ (release_data.minor = <<>>) = (MinorAt = {})

(* A scanned page of two drafts with different tags. *)
C3_Witness ==
    /\ pc = "branch"
    /\ Len(releases) = 2
    /\ releases[1].draft
    /\ releases[2].draft
    /\ releases[1].tag_name /= releases[2].tag_name

(* C4: in the update path, when the draft's body and the generated note are
   the same text, the run prints that there are no updates and ends, with no
   diff shown, no further prompt and no mutation call. *)
C4_SameNoteNoUpdate ==
    (/\ prev_release_note /= <<>>
     /\ next_release_note /= <<>>
     /\ prev_release_note = next_release_note)
        => /\ pc = "done"
           /\ error = ""
           /\ out = <<>>
           /\ printed = <<"No updates to the release note", "Exiting">>
           /\ Len(inputs) = 1
           /\ Mutations = {}

(* A draft whose two-line body is generated again unchanged. *)
C4_Witness ==
    /\ prev_release_note /= <<>>
    /\ next_release_note = prev_release_note
    /\ Len(SplitLines(prev_release_note[1])) = 2

(* The note the run holds, in either path. *)
NoteHeld == IF UpdatePath THEN next_release_note ELSE release_note

(* C5: _generate_release_note fails when the response is no dict, has no
   body, or has a body that is empty once trimmed; otherwise it returns the
   trimmed body; it never returns the empty string. *)
C5_NoteNeverEmpty ==
    data /= <<>> =>
        LET d == data[1]
        IN  IF d.kind /= "dict" \/ d.body = <<>>
            THEN pc = "fatal" /\ NoteHeld = <<>>
            ELSE IF Strip(d.body[1]) = <<>>
            THEN pc = "fatal" /\ NoteHeld = <<>>
            ELSE NoteHeld = <<Strip(d.body[1])>> /\ NoteHeld /= <<<<>>>>

(* C6: when the generate-notes response is a dict without a body, the run
   ends in the exception of _generate_release_note, holds no note and has
   made no mutation call, in the update path and in the create path. *)
C6_MissingBodyFatal ==
    (data /= <<>> /\ data[1].kind = "dict" /\ data[1].body = <<>>)
        => /\ pc = "fatal"
           /\ error = "unable to get release notes text"
           /\ NoteHeld = <<>>
           /\ Mutations = {}

(* A create run whose generate-notes response has no body. *)
C6_Witness ==
    /\ data /= <<>>
    /\ data[1].kind = "dict"
    /\ data[1].body = <<>>
    /\ ~UpdatePath
    /\ Len(inputs) >= 1

MinorParts == Split(release_data.minor, ".")

Derivable == Len(MinorParts) = 3 /\ IntOk(MinorParts[2])

CreateConfirmed ==
    /\ Len(inputs) >= 1
    /\ inputs[1].prompt = "Create new draft release?"
    /\ Yes(inputs[1].line)

VersionAsked == \E i \in 1..Len(inputs) : inputs[i].prompt = VersionPrompt

(* C7: in the create path, a minor tag <prefix>.<N>.0 with N an integer gives
   the next version <prefix>.<N+1>.0 and the version prompt is not shown;
   any other minor tag raises nothing: the version prompt is shown and the
   run goes on to note generation with the line typed there (trimmed and
   lower-cased, as every line the run reads). *)
C7_NextVersion ==
    CreateConfirmed =>
        IF Derivable
        THEN /\ ~VersionAsked
             /\ LET np == Split(next_release, ".")
                IN  /\ Len(np) = 3
                    /\ np[1] = MinorParts[1]
                    /\ IntOk(np[2])
                    /\ IntVal(np[2]) = IntVal(MinorParts[2]) + 1
                    /\ np[3] = <<"0">>
        ELSE \/ pc = "type_version" /\ error = "" /\ ~VersionAsked
             \/ /\ Len(inputs) >= 2
                /\ inputs[2].prompt = VersionPrompt
                /\ next_release = Lower(Strip(inputs[2].line))
                /\ \/ pc = "generate_create" /\ error = ""
                   \/ \E i \in NoteRequests :
                         calls[i].args.tag_name = next_release

(* The next version of v1.9.0, derived without a version prompt. *)
C7_Witness ==
    /\ CreateConfirmed
    /\ release_data.minor = <<"v", "1", ".", "9", ".", "0">>
    /\ next_release = <<"v", "1", ".", "1", "0", ".", "0">>
    /\ pc = "generate_create"

(* The diff whose lines were printed. *)
ShownDiff ==
    unified_diff(SplitLines(prev_release_note[1]), SplitLines(next_release_note[1]))

DiffShown == out /= <<>>

Unstyled(p) == p.pre = "" /\ p.post = ""

Styled(p, colour) == p.pre = colour /\ p.post = Reset(use_color)

(* The lines of a unified diff that are no lines of either text. *)
IsHeaderLine(line) ==
    line \in {FromFileLine, ToFileLine} \/ StartsWith(line, <<"@", "@">>)

(* C8 as claimed: "-" lines in the warning colour, "+" lines in the success
   colour, and the header lines and the context lines unstyled. *)
C8_HeadersUnstyled ==
    DiffShown =>
        LET diff == ShownDiff
        IN  \A i \in 1..Len(diff) :
                IF IsHeaderLine(diff[i]) \/ StartsWith(diff[i], <<" ">>)
                THEN Unstyled(out[i])
                ELSE IF StartsWith(diff[i], <<"-">>)
                THEN Styled(out[i], Red(use_color))
                ELSE IF StartsWith(diff[i], <<"+">>)
                THEN Styled(out[i], Green(use_color))
                ELSE Unstyled(out[i])

(* C8, amended: the leading character alone decides.  A line starting with
   "-" is printed in the warning colour, the file line "--- Current draft"
   included; a line starting with "+" in the success colour, the file line
   "+++ New draft" included; the "@@" hunk lines and the context lines are
   printed unstyled; every line is printed with trailing blanks removed. *)
C8_LeadingCharDecides ==
    DiffShown =>
        LET diff == ShownDiff
        IN  /\ Len(out) = Len(diff)
            /\ diff[1] = FromFileLine /\ Styled(out[1], Red(use_color))
            /\ diff[2] = ToFileLine /\ Styled(out[2], Green(use_color))
            /\ \A i \in 1..Len(diff) :
                  /\ out[i].text = RStrip(diff[i])
                  /\ diff[i][1] \in {"-", "+", "@", " "}
                  /\ diff[i][1] = "-" => Styled(out[i], Red(use_color))
                  /\ diff[i][1] = "+" => Styled(out[i], Green(use_color))
                  /\ diff[i][1] \in {"@", " "} => Unstyled(out[i])

(* A coloured diff with a context line, a removed line and an added line. *)
C8_Witness ==
    /\ DiffShown
    /\ use_color
    /\ LET diff == ShownDiff
       IN  \E i, j, k \in 4..Len(diff) :
              /\ diff[i][1] = " "
              /\ diff[j][1] = "-"
              /\ diff[k][1] = "+"

SourceOrder == <<"env", "helper", "getpass">>

(* C9: the sources are consulted in the order environment, helper, prompt; a
   source is consulted only when every earlier one gave an empty token, and
   is consulted when they all did (a failed helper gives the empty token and
   raises nothing); when all three gave the empty token the run ends in an
   exception before any call to the service, and a call to the service is
   made only with a token. *)
C9_CredentialOrder ==
    /\ Len(sources) <= 3
    /\ \A i \in 1..Len(sources) :
          /\ sources[i].source = SourceOrder[i]
          /\ \A j \in 1..(i - 1) : sources[j].token = <<>>
    /\ pc \notin {"start", "helper", "getpass"} =>
          LET got == sources[Len(sources)].token
          IN  /\ gh_token = got
              /\ IF got = <<>>
                 THEN /\ Len(sources) = 3
                      /\ pc = "fatal"
                      /\ error = "Unable to get GitHub token"
                      /\ calls = <<>>
                 ELSE error /= "Unable to get GitHub token"
    /\ pc = "getpass" => (Len(sources) = 2) = (sources[1].token = <<>>)
    /\ calls /= <<>> => gh_token /= <<>>

(* A run in which the environment, the helper and the prompt gave nothing. *)
C9_Witness ==
    /\ Len(sources) = 3
    /\ pc = "fatal"
    /\ \A i \in 1..3 : sources[i].token = <<>>

(* C10: every note-generation request carries a non-empty previous tag, the
   minor candidate, and a non-empty next tag: the draft's tag in the update
   path, the derived or typed next version in the create path. *)
C10_TagsNonEmpty ==
    \A i \in NoteRequests :
        /\ calls[i].args.previous_tag_name /= <<>>
        /\ calls[i].args.tag_name /= <<>>
        /\ calls[i].args.previous_tag_name = release_data.minor
        /\ calls[i].args.tag_name =
              IF UpdatePath THEN release_data.draft ELSE next_release

====
